---- MODULE Spec2Model ----
(***************************************************************************)
(* Model of the gymnastics class signup backend (src/index.js).            *)
(*                                                                         *)
(* Text is modelled as a sequence of one-character strings, so that the    *)
(* request sanitizers (trim, escape), he.decode and toLowerCase are        *)
(* computed character by character as the libraries compute them.          *)
(***************************************************************************)
EXTENDS Integers, Sequences, FiniteSets, TLC

(***************************************************************************)
(* Text helpers                                                            *)
(***************************************************************************)

\* The grave accent (code point 96), which a TLA+ string cannot contain.
Backtick == "U+0060"

\* Printable ASCII, Ascii[i] is the character with code point 31 + i.
Ascii ==
  << " ", "!", "\"", "#", "$", "%", "&", "'", "(", ")", "*", "+", ",", "-", ".", "/",
     "0", "1", "2", "3", "4", "5", "6", "7", "8", "9", ":", ";", "<", "=", ">", "?",
     "@", "A", "B", "C", "D", "E", "F", "G", "H", "I", "J", "K", "L", "M", "N", "O",
     "P", "Q", "R", "S", "T", "U", "V", "W", "X", "Y", "Z", "[", "\\", "]", "^", "_",
     Backtick, "a", "b", "c", "d", "e", "f", "g", "h", "i", "j", "k", "l", "m", "n", "o",
     "p", "q", "r", "s", "t", "u", "v", "w", "x", "y", "z", "{", "|", "}", "~" >>

\* Code point of a printable ASCII character, 0 for any other character.
CodeOf(c) ==
  IF \E i \in 1..Len(Ascii) : Ascii[i] = c
    THEN 31 + (CHOOSE i \in 1..Len(Ascii) : Ascii[i] = c)
    ELSE 0

\* String.prototype.toLowerCase on one character (ASCII letters).
LowerChar(c) ==
  LET n == CodeOf(c)
  IN  IF n >= 65 /\ n <= 90 THEN Ascii[n + 32 - 31] ELSE c

\* String.prototype.toLowerCase
ToLowerCase(s) == [i \in 1..Len(s) |-> LowerChar(s[i])]

\* Characters removed by the trim sanitizer: those the regular expression
\* class \s matches. The ones a TLA+ string cannot hold are written as
\* their code points.
Whitespace ==
  { " ", "\t", "\n", "\r", "\f", "U+000B", "U+00A0", "U+1680",
    "U+2000", "U+2001", "U+2002", "U+2003", "U+2004", "U+2005", "U+2006",
    "U+2007", "U+2008", "U+2009", "U+200A", "U+2028", "U+2029", "U+202F",
    "U+205F", "U+3000", "U+FEFF" }

RECURSIVE TrimLeft(_)
TrimLeft(s) ==
  IF s # <<>> /\ Head(s) \in Whitespace THEN TrimLeft(Tail(s)) ELSE s

RECURSIVE TrimRight(_)
TrimRight(s) ==
  IF s # <<>> /\ s[Len(s)] \in Whitespace
    THEN TrimRight(SubSeq(s, 1, Len(s) - 1))
    ELSE s

\* The validator chain's .trim()
Trim(s) == TrimRight(TrimLeft(s))

\* The validator chain's .escape() on one character.
EscapeChar(c) ==
  CASE c = "&"  -> <<"&", "a", "m", "p", ";">>
    [] c = "\"" -> <<"&", "q", "u", "o", "t", ";">>
    [] c = "'"  -> <<"&", "#", "x", "2", "7", ";">>
    [] c = "<"  -> <<"&", "l", "t", ";">>
    [] c = ">"  -> <<"&", "g", "t", ";">>
    [] c = "/"  -> <<"&", "#", "x", "2", "F", ";">>
    [] c = "\\" -> <<"&", "#", "x", "5", "C", ";">>
    [] c = Backtick -> <<"&", "#", "9", "6", ";">>
    [] OTHER    -> <<c>>

RECURSIVE Escape(_)
\* The validator chain's .escape()
Escape(s) ==
  IF s = <<>> THEN <<>> ELSE EscapeChar(Head(s)) \o Escape(Tail(s))

Digits == {"0", "1", "2", "3", "4", "5", "6", "7", "8", "9"}
HexDigits == Digits \cup {"a", "b", "c", "d", "e", "f", "A", "B", "C", "D", "E", "F"}
Letters == {Ascii[i] : i \in (34..59) \cup (66..91)}
AlphaNum == Digits \cup Letters

\* Value of one hexadecimal digit.
HexVal(c) ==
  LET n == CodeOf(c)
  IN  IF c \in Digits THEN n - 48
      ELSE IF n >= 97 THEN n - 97 + 10
      ELSE n - 65 + 10

\* parseInt(digits, base), saturated above the code points the model names.
RECURSIVE ParseInt(_, _, _)
ParseInt(ds, base, acc) ==
  IF ds = <<>> THEN acc
  ELSE LET v == acc * base + HexVal(Head(ds))
       IN  ParseInt(Tail(ds), base, IF v > 1000 THEN 1000 ELSE v)

\* Length of the longest prefix of s[i..] whose characters are all in set.
RECURSIVE RunLen(_, _, _)
RunLen(s, i, set) ==
  IF i <= Len(s) /\ s[i] \in set THEN 1 + RunLen(s, i + 1, set) ELSE 0

\* Named character references that end in a semicolon (the ASCII ones).
NamedEntity(name) ==
  CASE name = <<"a", "m", "p">>           -> "&"
    [] name = <<"l", "t">>                -> "<"
    [] name = <<"g", "t">>                -> ">"
    [] name = <<"q", "u", "o", "t">>      -> "\""
    [] name = <<"a", "p", "o", "s">>      -> "'"
    [] name = <<"s", "o", "l">>           -> "/"
    [] name = <<"b", "s", "o", "l">>      -> "\\"
    [] name = <<"g", "r", "a", "v", "e">> -> Backtick
    [] OTHER                              -> ""

\* Legacy references, recognised without the semicolon (the ASCII ones).
LegacyNames == {<<"a", "m", "p">>, <<"l", "t">>, <<"g", "t">>, <<"q", "u", "o", "t">>}

IsPrefixAt(s, i, name) ==
  /\ i + Len(name) - 1 <= Len(s)
  /\ SubSeq(s, i, i + Len(name) - 1) = name

\* he.decode from position i on: one alternative of its regular expression
\* per branch, in the order the expression tries them.
RECURSIVE DecodeFrom(_, _)
DecodeFrom(s, i) ==
  IF i > Len(s) THEN <<>>
  ELSE IF s[i] # "&" THEN <<s[i]>> \o DecodeFrom(s, i + 1)
  ELSE
    LET n    == RunLen(s, i + 1, AlphaNum)
        name == SubSeq(s, i + 1, i + n)
        semi == i + n + 1 <= Len(s) /\ s[i + n + 1] = ";"
        leg  == {l \in LegacyNames : IsPrefixAt(s, i + 1, l)}
        isNum == i + 1 <= Len(s) /\ s[i + 1] = "#"
        isHex == isNum /\ i + 2 <= Len(s) /\ s[i + 2] \in {"x", "X"}
        nd   == IF isNum THEN RunLen(s, i + 2, Digits) ELSE 0
        nh   == IF isHex THEN RunLen(s, i + 3, HexDigits) ELSE 0
    IN
      IF n > 0 /\ semi /\ NamedEntity(name) # ""
        THEN <<NamedEntity(name)>> \o DecodeFrom(s, i + n + 2)
      ELSE IF leg # {}
        THEN LET l == CHOOSE x \in leg : TRUE
             IN  <<NamedEntity(l)>> \o DecodeFrom(s, i + 1 + Len(l))
      ELSE IF nd > 0
        THEN LET cp   == ParseInt(SubSeq(s, i + 2, i + 1 + nd), 10, 0)
                 stop == i + 2 + nd
                 next == IF stop <= Len(s) /\ s[stop] = ";" THEN stop + 1 ELSE stop
             IN  IF cp >= 32 /\ cp <= 126
                   THEN <<Ascii[cp - 31]>> \o DecodeFrom(s, next)
                   ELSE SubSeq(s, i, next - 1) \o DecodeFrom(s, next)
      ELSE IF nh > 0
        THEN LET cp   == ParseInt(SubSeq(s, i + 3, i + 2 + nh), 16, 0)
                 stop == i + 3 + nh
                 next == IF stop <= Len(s) /\ s[stop] = ";" THEN stop + 1 ELSE stop
             IN  IF cp >= 32 /\ cp <= 126
                   THEN <<Ascii[cp - 31]>> \o DecodeFrom(s, next)
                   ELSE SubSeq(s, i, next - 1) \o DecodeFrom(s, next)
      ELSE <<"&">> \o DecodeFrom(s, i + 1)

\* he.decode
Decode(s) == DecodeFrom(s, 1)


(***************************************************************************)
(* Bounds and inputs                                                       *)
(***************************************************************************)

\* Number of POST /class-signup requests, numbered in order of arrival.
NumRequests == 2

Reqs == 1..NumRequests

\* Length limits of the validator chains.
ClassNameMax == 100
DayTimeMax == 20
NameMax == 50

sAB   == <<"A", "&", "B">>
sABsp == <<"\f", "A", "&", "B", " ", "U+00A0">>
sGym  == <<"G", "y", "m">>
sZed  == <<"Z", "e", "d">>
sMon  == <<"M", "o", "n">>
sMW   == <<"M", "/", "W">>
sTue  == <<"T", "u", "e">>
s4pm  == <<"4", "p", "m">>
s5pm  == <<"5", "p", "m">>
sPhone == <<"2", "0", "2", "5", "5", "5", "0", "1", "2", "3">>
sNoPhone == <<"a", "b", "c">>

\* Numbers the mobile phone validator accepts, among those the model sends.
MobilePhones == {sPhone}

MkSignee(cf, cl, pf, pl, ph) ==
  [childFirstName |-> cf, childLastName |-> cl,
   parentFirstName |-> pf, parentLastName |-> pl, parentPhoneNumber |-> ph]

AnaLee == MkSignee(<<"A", "n", "a">>, <<"L", "e", "e">>, <<"P", "a", "t">>, <<"L", "e", "e">>, sPhone)
anaLEE == MkSignee(<<"a", "n", "a">>, <<"L", "E", "E">>, <<"P", "a", "t">>, <<"L", "e", "e">>, sPhone)
BenKim == MkSignee(<<"B", "e", "n">>, <<"K", "i", "m">>, <<"J", "o">>, <<"K", "i", "m">>, <<" ">> \o sPhone \o <<"\f">>)
NoCall == MkSignee(<<"D", "e", "e">>, <<"O", "'", "N">>, <<"M", "o">>, <<"O", "'", "N">>, sNoPhone)
\* A stored signee (stored names are lower case).
cyFox  == MkSignee(<<"c", "y">>, <<"f", "o", "x">>, <<"a", "l">>, <<"f", "o", "x">>, sPhone)

MkBody(cn, d, t, sg) == [className |-> cn, day |-> d, time |-> t, signee |-> sg]

\* The request bodies clients send.
Bodies ==
  { MkBody(sAB,   sMon, s4pm, AnaLee),
    MkBody(sAB,   sMon, s4pm, anaLEE),
    MkBody(sABsp, sMon, s4pm, BenKim),
    MkBody(sAB,   sMW,  s4pm, BenKim),
    MkBody(sZed,  sMon, s4pm, BenKim),
    MkBody(sAB,   sTue, s4pm, AnaLee),
    MkBody(<<" ">>, sMon, s4pm, AnaLee),
    MkBody(sAB,   sMon, s4pm, NoCall) }

(***************************************************************************)
(* Data model (the mongoose schemas)                                       *)
(***************************************************************************)

\* A missing document, a request not yet sent, an answer not yet given.
Null == [null |-> TRUE]

MkSession(d, t, max, pr, sgs) ==
  [day |-> d, time |-> t, maxSignups |-> max, price |-> pr, signees |-> sgs]

MkClass(n, ss, i) == [name |-> n, sessions |-> ss, id |-> i]

MkCatalog(cs, se) == [classes |-> cs, season |-> se]

\* Seeded signups catalog in which class names and (day, time) are unique.
SeedUnique ==
  MkCatalog(<< MkClass(sAB, << MkSession(sMon, s4pm, 2, 40, <<cyFox>>),
                               MkSession(sMW, s4pm, 1, 40, <<>>) >>, "c1"),
               MkClass(sGym, << MkSession(sMon, s4pm, 1, 30, <<cyFox>>) >>, "c2") >>,
            "fall")

\* Seeded signups catalog with a repeated (day, time) and a repeated name.
SeedRepeated ==
  MkCatalog(<< MkClass(sAB, << MkSession(sMon, s4pm, 2, 40, <<>>),
                               MkSession(sMon, s4pm, 1, 40, <<cyFox>>) >>, "c1"),
               MkClass(sAB, << MkSession(sMon, s4pm, 1, 30, <<>>) >>, "c2") >>,
            "fall")

SeedUpcoming ==
  MkCatalog(<< MkClass(sGym, << MkSession(sTue, s5pm, 3, 30, <<cyFox>>) >>, "u1") >>,
            "spring")

(***************************************************************************)
(* State                                                                   *)
(***************************************************************************)

VARIABLES
  signupsDb,      \* the document of the "signups" collection, or Null
  upcomingDb,     \* the document of the "upcoming" collection, or Null
  pc,             \* pc[r]: where request r of POST /class-signup stands
  sent,           \* sent[r]: the body as the client sent it
  body,           \* body[r]: req.body after the validator chains ran
  dbEntry,        \* dbEntry[r]: the document Gymnastics.findOne() returned
  res,            \* res[r]: the answer to request r
  gpc,            \* where the GET /classes request stands
  signupsEntry,   \* signupsEntry of GET /classes
  gres            \* the answer of GET /classes

vars == <<signupsDb, upcomingDb, pc, sent, body, dbEntry, res, gpc, signupsEntry, gres>>

Answer(st, msg) == [status |-> st, send |-> msg]

Init ==
  /\ signupsDb \in {SeedUnique, SeedRepeated, Null}
  /\ upcomingDb \in {SeedUpcoming, Null}
  /\ pc = [r \in Reqs |-> "idle"]
  /\ sent = [r \in Reqs |-> Null]
  /\ body = [r \in Reqs |-> Null]
  /\ dbEntry = [r \in Reqs |-> Null]
  /\ res = [r \in Reqs |-> Null]
  /\ gpc = "idle"
  /\ signupsEntry = Null
  /\ gres = Null

(***************************************************************************)
(* POST /class-signup                                                      *)
(***************************************************************************)

\* req.body once the sanitizers of the validator chains have run.
Sanitize(b) ==
  [className |-> Escape(Trim(b.className)),
   day       |-> Escape(Trim(b.day)),
   time      |-> Escape(Trim(b.time)),
   signee    |->
     [childFirstName    |-> Escape(Trim(b.signee.childFirstName)),
      childLastName     |-> Escape(Trim(b.signee.childLastName)),
      parentFirstName   |-> Escape(Trim(b.signee.parentFirstName)),
      parentLastName    |-> Escape(Trim(b.signee.parentLastName)),
      parentPhoneNumber |-> Trim(b.signee.parentPhoneNumber)]]

IsLength(s, min, max) == Len(s) >= min /\ Len(s) <= max

IsMobilePhone(s) == s \in MobilePhones

\* validationResult(req).isEmpty(), on the sanitized body.
ValidationOk(b) ==
  /\ IsLength(b.className, 1, ClassNameMax)
  /\ IsLength(b.day, 1, DayTimeMax)
  /\ IsLength(b.time, 1, DayTimeMax)
  /\ IsLength(b.signee.childFirstName, 1, NameMax)
  /\ IsLength(b.signee.childLastName, 1, NameMax)
  /\ IsLength(b.signee.parentFirstName, 1, NameMax)
  /\ IsLength(b.signee.parentLastName, 1, NameMax)
  /\ IsMobilePhone(b.signee.parentPhoneNumber)

\* Array.prototype.find as an index: the first of the matching indices, 0
\* when no element matches.
FindIndex(matches) ==
  IF matches = {} THEN 0 ELSE CHOOSE i \in matches : \A j \in matches : i <= j

DecodedClassName(b) == Decode(b.className)

\* dbEntry.classes.find((c) => c.name === decodedClassName)
ClassIndex(doc, b) ==
  FindIndex({i \in 1..Len(doc.classes) : doc.classes[i].name = DecodedClassName(b)})

\* Variant of SessionIndex: a session is matched on its day or its time alone.
SessionIndexEither(classItem, b) ==
  FindIndex({i \in 1..Len(classItem.sessions) :
               classItem.sessions[i].day = b.day \/ classItem.sessions[i].time = b.time})

\* classItem.sessions.find((s) => s.day === day && s.time === time)
SessionIndex(classItem, b) ==
  FindIndex({i \in 1..Len(classItem.sessions) :
               classItem.sessions[i].day = b.day /\ classItem.sessions[i].time = b.time})

\* Variant of AlreadySignedUp: the child names are compared as received.
AlreadySignedUpAsReceived(session, b) ==
  \E i \in 1..Len(session.signees) :
    /\ session.signees[i].childFirstName = b.signee.childFirstName
    /\ session.signees[i].childLastName = b.signee.childLastName

\* session.signees.some(...) against the lower-cased child names
AlreadySignedUp(session, b) ==
  LET signeeFirstName == ToLowerCase(b.signee.childFirstName)
      signeeLastName  == ToLowerCase(b.signee.childLastName)
  IN  \E i \in 1..Len(session.signees) :
        /\ session.signees[i].childFirstName = signeeFirstName
        /\ session.signees[i].childLastName = signeeLastName

\* Variant of SessionFull: strict comparison.
SessionOverFull(session) == Len(session.signees) > session.maxSignups

\* session.signees.length >= session.maxSignups
SessionFull(session) == Len(session.signees) >= session.maxSignups

\* The answer the checks on the snapshot give, Null when all of them pass.
CheckAnswer(doc, b) ==
  IF doc = Null THEN Answer(500, "No class data found")
  ELSE LET ci == ClassIndex(doc, b)
       IN  IF ci = 0 THEN Answer(404, "Class not found")
           ELSE LET si == SessionIndex(doc.classes[ci], b)
                IN  IF si = 0 THEN Answer(404, "Session not found")
                    ELSE LET session == doc.classes[ci].sessions[si]
                         IN  IF AlreadySignedUp(session, b)
                               THEN Answer(400, "Already signed up")
                             ELSE IF SessionFull(session)
                               THEN Answer(400, "Session is full")
                             ELSE Null

\* SigneeSchema casts a pushed signee: the name fields are lower-cased.
CastSignee(sg) ==
  [childFirstName    |-> ToLowerCase(sg.childFirstName),
   childLastName     |-> ToLowerCase(sg.childLastName),
   parentFirstName   |-> ToLowerCase(sg.parentFirstName),
   parentLastName    |-> ToLowerCase(sg.parentLastName),
   parentPhoneNumber |-> sg.parentPhoneNumber]

\* The query of findOneAndUpdate: each dotted path matches when some element
\* of the arrays it crosses has the value.
QueryMatches(doc, b) ==
  /\ doc # Null
  /\ \E i \in 1..Len(doc.classes) : doc.classes[i].name = DecodedClassName(b)
  /\ \E i \in 1..Len(doc.classes) : \E j \in 1..Len(doc.classes[i].sessions) :
       doc.classes[i].sessions[j].day = b.day
  /\ \E i \in 1..Len(doc.classes) : \E j \in 1..Len(doc.classes[i].sessions) :
       doc.classes[i].sessions[j].time = b.time

\* $push to classes.$[cls].sessions.$[session].signees: the signee is
\* appended in every element the array filters select.
PushSignee(doc, b) ==
  [doc EXCEPT !.classes =
     [i \in 1..Len(doc.classes) |->
        IF doc.classes[i].name = DecodedClassName(b)
          THEN [doc.classes[i] EXCEPT !.sessions =
                  [j \in 1..Len(doc.classes[i].sessions) |->
                     LET s == doc.classes[i].sessions[j]
                     IN  IF s.day = b.day /\ s.time = b.time
                           THEN [s EXCEPT !.signees = Append(@, CastSignee(b.signee))]
                           ELSE s]]
          ELSE doc.classes[i]]]

\* Variant of UpdatedDoc: the document read earlier is changed and written back.
UpdatedDocFromSnapshot(r) ==
  IF QueryMatches(dbEntry[r], body[r]) THEN PushSignee(dbEntry[r], body[r]) ELSE signupsDb

\* Variant of UpdatedDoc: the store appends only while the session has room.
UpdatedDocIfRoom(r) ==
  LET ci == ClassIndex(signupsDb, body[r])
      si == SessionIndex(signupsDb.classes[ci], body[r])
  IN  IF SessionFull(signupsDb.classes[ci].sessions[si])
        THEN signupsDb
        ELSE PushSignee(signupsDb, body[r])

\* The stored document once request r's findOneAndUpdate has been applied.
UpdatedDoc(r) ==
  IF QueryMatches(signupsDb, body[r]) THEN PushSignee(signupsDb, body[r]) ELSE signupsDb

\* The request arrives: the validator chains run, then the handler's start.
Receive(r, b) ==
  /\ pc[r] = "idle"
  /\ \A q \in Reqs : q < r => pc[q] # "idle"
  /\ sent' = [sent EXCEPT ![r] = b]
  /\ body' = [body EXCEPT ![r] = Sanitize(b)]
  /\ IF ValidationOk(Sanitize(b))
       THEN /\ pc' = [pc EXCEPT ![r] = "findOne"]
            /\ res' = res
       ELSE /\ pc' = [pc EXCEPT ![r] = "done"]
            /\ res' = [res EXCEPT ![r] = Answer(400, "errors")]
  /\ UNCHANGED <<signupsDb, upcomingDb, dbEntry, gpc, signupsEntry, gres>>

\* Gymnastics.findOne() resolves and the handler runs up to its next await.
FindOne(r) ==
  /\ pc[r] = "findOne"
  /\ dbEntry' = [dbEntry EXCEPT ![r] = signupsDb]
  /\ LET a == CheckAnswer(signupsDb, body[r])
     IN  IF a = Null
           THEN /\ pc' = [pc EXCEPT ![r] = "findOneAndUpdate"]
                /\ res' = res
           ELSE /\ pc' = [pc EXCEPT ![r] = "done"]
                /\ res' = [res EXCEPT ![r] = a]
  /\ UNCHANGED <<signupsDb, upcomingDb, sent, body, gpc, signupsEntry, gres>>

\* The store applies the update and the handler answers.
FindOneAndUpdate(r) ==
  /\ pc[r] = "findOneAndUpdate"
  /\ signupsDb' = UpdatedDoc(r)
  /\ pc' = [pc EXCEPT ![r] = "done"]
  /\ res' = [res EXCEPT ![r] = Answer(200, "Signup successful")]
  /\ UNCHANGED <<upcomingDb, sent, body, dbEntry, gpc, signupsEntry, gres>>

\* A store call rejects (the operation is not applied): the catch block.
SignupFailed(r) ==
  /\ pc[r] \in {"findOne", "findOneAndUpdate"}
  /\ pc' = [pc EXCEPT ![r] = "done"]
  /\ res' = [res EXCEPT ![r] = Answer(500, "Server error")]
  /\ UNCHANGED <<signupsDb, upcomingDb, sent, body, dbEntry, gpc, signupsEntry, gres>>

(***************************************************************************)
(* GET /classes                                                            *)
(***************************************************************************)

\* classes.map(...): every session's signees replaced by their count.
ClassesWithCounts(doc) ==
  [i \in 1..Len(doc.classes) |->
     [doc.classes[i] EXCEPT !.sessions =
        [j \in 1..Len(doc.classes[i].sessions) |->
           [doc.classes[i].sessions[j] EXCEPT !.signees = Len(@)]]]]

\* Variant of ClassesJson: both halves are built from the signups document.
ClassesJsonCopied(su, up) ==
  [signups  |-> [season |-> su.season, classes |-> ClassesWithCounts(su)],
   upcoming |-> [season |-> up.season, classes |-> ClassesWithCounts(su)]]

\* The body of the 200 answer.
ClassesJson(su, up) ==
  [signups  |-> [season |-> su.season, classes |-> ClassesWithCounts(su)],
   upcoming |-> [season |-> up.season, classes |-> ClassesWithCounts(up)]]

\* Gymnastics.findOne() of GET /classes resolves.
GetSignups ==
  /\ gpc \in {"idle", "done"}
  /\ gpc' = "upcoming"
  /\ signupsEntry' = signupsDb
  /\ gres' = Null
  /\ UNCHANGED <<signupsDb, upcomingDb, pc, sent, body, dbEntry, res>>

\* Upcoming.findOne() resolves and the handler answers.
GetUpcoming ==
  /\ gpc = "upcoming"
  /\ gpc' = "done"
  /\ gres' = IF signupsEntry = Null THEN Answer(404, "Signups not found")
             ELSE IF upcomingDb = Null THEN Answer(404, "Upcoming classes not found")
             ELSE [status |-> 200, json |-> ClassesJson(signupsEntry, upcomingDb)]
  /\ UNCHANGED <<signupsDb, upcomingDb, pc, sent, body, dbEntry, res, signupsEntry>>

\* A store call of GET /classes rejects: the catch block.
GetFailed ==
  /\ gpc = "upcoming"
  /\ gpc' = "done"
  /\ gres' = Answer(500, "Server error")
  /\ UNCHANGED <<signupsDb, upcomingDb, pc, sent, body, dbEntry, res, signupsEntry>>

(***************************************************************************)
(* Specifications                                                          *)
(***************************************************************************)

Next ==
  \/ \E r \in Reqs : \E b \in Bodies : Receive(r, b)
  \/ \E r \in Reqs : FindOne(r)
  \/ \E r \in Reqs : FindOneAndUpdate(r)
  \/ \E r \in Reqs : SignupFailed(r)

\* Registration requests handled concurrently: any interleaving of their steps.
Spec == Init /\ [][Next]_vars

\* A request is received only when every earlier one has been answered.
SeqReceive(r, b) ==
  /\ \A q \in Reqs : pc[q] \in {"idle", "done"}
  /\ Receive(r, b)

SeqNext ==
  \/ \E r \in Reqs : \E b \in Bodies : SeqReceive(r, b)
  \/ \E r \in Reqs : FindOne(r)
  \/ \E r \in Reqs : FindOneAndUpdate(r)
  \/ \E r \in Reqs : SignupFailed(r)

\* Sequential execution of the registration requests.
SeqSpec == Init /\ [][SeqNext]_vars

GetNext ==
  \/ \E r \in Reqs : \E b \in Bodies : SeqReceive(r, b)
  \/ \E r \in Reqs : FindOne(r)
  \/ \E r \in Reqs : FindOneAndUpdate(r)
  \/ \E r \in Reqs : SignupFailed(r)
  \/ GetSignups
  \/ GetUpcoming
  \/ GetFailed

\* GET /classes requests running while registrations are made.
GetSpec == Init /\ [][GetNext]_vars


(***************************************************************************)
(* Properties                                                              *)
(***************************************************************************)

Success       == Answer(200, "Signup successful")
ServerError   == Answer(500, "Server error")
Duplicate     == Answer(400, "Already signed up")
FullAnswer    == Answer(400, "Session is full")
NoClass       == Answer(404, "Class not found")
NoSession     == Answer(404, "Session not found")

\* The handler's lookups of body b find a class and a session in doc.
Locates(doc, b) ==
  /\ doc # Null
  /\ ClassIndex(doc, b) # 0
  /\ SessionIndex(doc.classes[ClassIndex(doc, b)], b) # 0

\* The session the handler's lookups of body b find in doc.
Located(doc, b) ==
  LET ci == ClassIndex(doc, b)
  IN  doc.classes[ci].sessions[SessionIndex(doc.classes[ci], b)]

\* Two signee records name the same child, letter case ignored.
SameChild(a, b) ==
  /\ ToLowerCase(a.childFirstName) = ToLowerCase(b.childFirstName)
  /\ ToLowerCase(a.childLastName) = ToLowerCase(b.childLastName)

\* How many signees of the session name the child of signee sg.
ChildCount(session, sg) ==
  Cardinality({i \in 1..Len(session.signees) : SameChild(session.signees[i], sg)})

\* Request r's findOne resolves in this step and its checks run.
ChecksRun(r) == pc[r] = "findOne" /\ pc'[r] # "findOne" /\ res'[r] # ServerError

\* Request r's findOneAndUpdate resolves in this step.
UpdateRuns(r) == pc[r] = "findOneAndUpdate" /\ pc'[r] = "done" /\ res'[r] # ServerError

\* C1: under sequential execution every session of the signups catalog keeps
\* len(signees) <= maxSignups, whatever catalog was seeded.
C1_CapacityKept ==
  signupsDb # Null =>
    \A i \in 1..Len(signupsDb.classes) :
      \A j \in 1..Len(signupsDb.classes[i].sessions) :
        Len(signupsDb.classes[i].sessions[j].signees)
          <= signupsDb.classes[i].sessions[j].maxSignups

\* Two bodies that differ at most in the letter case of the names.
SameButCase(a, b) ==
  /\ a.className = b.className /\ a.day = b.day /\ a.time = b.time
  /\ SameChild(a.signee, b.signee)
  /\ ToLowerCase(a.signee.parentFirstName) = ToLowerCase(b.signee.parentFirstName)
  /\ ToLowerCase(a.signee.parentLastName) = ToLowerCase(b.signee.parentLastName)
  /\ a.signee.parentPhoneNumber = b.signee.parentPhoneNumber

\* C2: sequentially, when a signup succeeded and a later request repeats it
\* with at most the letter case changed, the later one is answered
\* 400 "Already signed up" and the session holds the child exactly once.
C2_DuplicateRejected ==
  \A p \in Reqs : \A q \in Reqs :
    ( /\ p < q
      /\ pc[p] = "done" /\ res[p] = Success
      /\ pc[q] = "done" /\ res[q] # ServerError
      /\ SameButCase(sent[p], sent[q]) )
    => /\ res[q] = Duplicate
       /\ ChildCount(Located(signupsDb, body[q]), body[q].signee) = 1

C2_Witness ==
  /\ pc[1] = "done" /\ res[1] = Success
  /\ pc[2] = "done" /\ res[2] = Duplicate
  /\ SameButCase(sent[1], sent[2])
  /\ sent[1] # sent[2]

\* C3: a request for a child who is not signed up, to a session that already
\* holds maxSignups signees or more, is answered 400 "Session is full" and
\* the catalogs stay as they were.
C3_FullRejected ==
  [][ \A r \in Reqs :
        ( /\ ChecksRun(r)
          /\ Locates(signupsDb, body[r])
          /\ ChildCount(Located(signupsDb, body[r]), body[r].signee) = 0
          /\ Len(Located(signupsDb, body[r]).signees)
               >= Located(signupsDb, body[r]).maxSignups )
        => /\ res'[r] = FullAnswer
           /\ signupsDb' = signupsDb
           /\ upcomingDb' = upcomingDb ]_vars

C3_Witness ==
  \E r \in Reqs :
    /\ pc[r] = "done" /\ res[r] = FullAnswer
    /\ signupsDb = dbEntry[r]
    /\ ChildCount(Located(dbEntry[r], body[r]), body[r].signee) = 0

\* C4: a request whose class name (decoded) is the name of no stored class is
\* answered 404 "Class not found"; one whose class is found but whose
\* (day, time) is that of none of its sessions is answered
\* 404 "Session not found"; the catalogs stay as they were.
C4_NotFound ==
  [][ \A r \in Reqs :
        (ChecksRun(r) /\ signupsDb # Null) =>
          LET b  == body[r]
              cs == {i \in 1..Len(signupsDb.classes) :
                       signupsDb.classes[i].name = DecodedClassName(b)}
              first == CHOOSE i \in cs : \A k \in cs : i <= k
          IN  /\ cs = {} =>
                   res'[r] = NoClass /\ signupsDb' = signupsDb /\ upcomingDb' = upcomingDb
              /\ ( /\ cs # {}
                   /\ \A j \in 1..Len(signupsDb.classes[first].sessions) :
                        \/ signupsDb.classes[first].sessions[j].day # b.day
                        \/ signupsDb.classes[first].sessions[j].time # b.time )
                 => res'[r] = NoSession /\ signupsDb' = signupsDb /\ upcomingDb' = upcomingDb
    ]_vars

C4_Witness ==
  \E p \in Reqs : \E q \in Reqs :
    /\ pc[p] = "done" /\ res[p] = NoClass /\ dbEntry[p] # Null
    /\ pc[q] = "done" /\ res[q] = NoSession
    /\ \E i \in 1..Len(dbEntry[q].classes) : dbEntry[q].classes[i].name = Trim(sent[q].className)

\* The answer's half j gives, session by session, the signee count of doc.
CountsOf(j, doc) ==
  /\ j.season = doc.season
  /\ Len(j.classes) = Len(doc.classes)
  /\ \A i \in 1..Len(doc.classes) :
       /\ j.classes[i].name = doc.classes[i].name
       /\ Len(j.classes[i].sessions) = Len(doc.classes[i].sessions)
       /\ \A k \in 1..Len(doc.classes[i].sessions) :
            /\ j.classes[i].sessions[k].signees \in Nat
            /\ j.classes[i].sessions[k].signees = Len(doc.classes[i].sessions[k].signees)

\* C5: GET /classes, when both catalogs exist, answers with every session's
\* signees given as the number of signees stored when the catalog was read,
\* and changes nothing in the store.
C5_CountsOnly ==
  [][ /\ (gpc # "upcoming" /\ gpc' = "upcoming") => signupsEntry' = signupsDb
      /\ ( /\ gpc = "upcoming" /\ gpc' = "done" /\ gres' # ServerError
           /\ signupsEntry # Null /\ upcomingDb # Null )
         => /\ gres'.status = 200
            /\ CountsOf(gres'.json.signups, signupsEntry)
            /\ CountsOf(gres'.json.upcoming, upcomingDb)
      /\ gpc' # gpc => (signupsDb' = signupsDb /\ upcomingDb' = upcomingDb)
    ]_vars

C5_Witness ==
  /\ gpc = "done" /\ gres # ServerError /\ gres.status = 200
  /\ signupsEntry # signupsDb

\* doc with signee sg appended to session si of class ci and nothing else changed.
AppendedAt(doc, ci, si, sg) ==
  [doc EXCEPT !.classes[ci].sessions[si].signees = Append(@, sg)]

\* C6: a request answered 200 appends one signee, names lower-cased, to the
\* one session its checks were made against and changes nothing else; a
\* request answered with a failure changes nothing.
C6_OneSessionChanged ==
  [][ \A r \in Reqs :
        /\ (UpdateRuns(r) /\ res'[r] = Success) =>
             LET ci == ClassIndex(dbEntry[r], body[r])
                 si == SessionIndex(dbEntry[r].classes[ci], body[r])
             IN  /\ signupsDb' = AppendedAt(signupsDb, ci, si, CastSignee(body[r].signee))
                 /\ upcomingDb' = upcomingDb
        /\ (pc[r] # "done" /\ pc'[r] = "done" /\ res'[r] # Success) =>
             (signupsDb' = signupsDb /\ upcomingDb' = upcomingDb)
    ]_vars

\* C7: once answered 200, a request's signee is in the session it targeted
\* and stays there, however the requests interleave.
C7_NoLostUpdate ==
  \A r \in Reqs :
    (pc[r] = "done" /\ res[r] = Success) =>
      /\ Locates(signupsDb, body[r])
      /\ \E i \in 1..Len(Located(signupsDb, body[r]).signees) :
           Located(signupsDb, body[r]).signees[i] = CastSignee(body[r].signee)

C7_Witness ==
  /\ pc[1] = "done" /\ res[1] = Success
  /\ pc[2] = "done" /\ res[2] = Success
  /\ dbEntry[1] = dbEntry[2]
  /\ ~SameChild(body[1].signee, body[2].signee)
  /\ Located(signupsDb, body[1]) = Located(signupsDb, body[2])

\* Requests p and q, for different children, both read the same catalog in
\* which the session they target has exactly one free place.
BothReadOneFree(p, q) ==
  /\ p # q
  /\ pc[p] = "done" /\ res[p] # ServerError
  /\ pc[q] = "done" /\ res[q] # ServerError
  /\ dbEntry[p] = dbEntry[q]
  /\ Locates(dbEntry[p], body[p]) /\ Locates(dbEntry[q], body[q])
  /\ DecodedClassName(body[p]) = DecodedClassName(body[q])
  /\ body[p].day = body[q].day /\ body[p].time = body[q].time
  /\ ~SameChild(body[p].signee, body[q].signee)
  /\ ChildCount(Located(dbEntry[p], body[p]), body[p].signee) = 0
  /\ ChildCount(Located(dbEntry[q], body[q]), body[q].signee) = 0
  /\ Len(Located(dbEntry[p], body[p]).signees) + 1 = Located(dbEntry[p], body[p]).maxSignups

\* C8: two requests for different children that both read the catalog while
\* their session has one free place both pass the capacity check, both append
\* and both are answered 200: the session ends above maxSignups.
C8_Overbooked ==
  \A p \in Reqs : \A q \in Reqs :
    BothReadOneFree(p, q) =>
      /\ res[p] = Success /\ res[q] = Success
      /\ Len(Located(signupsDb, body[p]).signees)
           >= Located(signupsDb, body[p]).maxSignups + 1

C8_Witness ==
  /\ BothReadOneFree(1, 2)
  /\ res[1] = Success /\ res[2] = Success
  /\ Len(Located(signupsDb, body[1]).signees) = Located(signupsDb, body[1]).maxSignups + 1

\* C9: no session ever holds two signees with the same child names, letter
\* case ignored, however the requests interleave.
C9_ChildUnique ==
  signupsDb # Null =>
    \A i \in 1..Len(signupsDb.classes) :
      \A j \in 1..Len(signupsDb.classes[i].sessions) :
        LET sgs == signupsDb.classes[i].sessions[j].signees
        IN  \A k \in 1..Len(sgs) : \A l \in 1..Len(sgs) :
              k # l => ~SameChild(sgs[k], sgs[l])

\* C10: a well-formed request that sends exactly the name of a stored class
\* and the day and time of one of its sessions is never answered
\* "Class not found" or "Session not found".
C10_StoredSessionFound ==
  \A r \in Reqs :
    ( /\ pc[r] = "done" /\ dbEntry[r] # Null
      /\ \E i \in 1..Len(dbEntry[r].classes) :
           /\ dbEntry[r].classes[i].name = sent[r].className
           /\ \E j \in 1..Len(dbEntry[r].classes[i].sessions) :
                /\ dbEntry[r].classes[i].sessions[j].day = sent[r].day
                /\ dbEntry[r].classes[i].sessions[j].time = sent[r].time )
    => res[r] \notin {NoClass, NoSession}

====
